---- MODULE Spec2Model ----
(***************************************************************************)
(* The trivia server (src/server.js): the player registry, the round       *)
(* ledger, the scoring formula, the shuffle bag and the timer-driven phase *)
(* scheduler, as one state machine.  Each socket.io handler and each timer *)
(* callback is one action; handlers run to completion (Node's event loop). *)
(*                                                                         *)
(* Left out of the player record: lastAnswer (written at server.js:395,    *)
(* never read by the server).  Left out of the question payload: text,     *)
(* category and choices (copied unchanged from the catalog).  Left out of  *)
(* answer_result: rankWord and humor (library / random text).              *)
(***************************************************************************)
EXTENDS Integers, Sequences, FiniteSets, TLC

\* ------------------------------------------------------------------ bounds
MaxSockets == 2
MaxRounds == 2
MaxCatalog == 2
\* the registry alone (empty catalog): connections ever accepted
MaxConnections == 4
\* the scheduler alone: questions started, and the largest catalog
MaxDraws == 7
MaxBag == 3
\* the server with timers that fire: connections ever accepted, and rounds
MaxLiveSockets == 1
MaxLiveRounds == 3
\* the leaderboard of a crowd: connections ever accepted, and the ways the
\* crowd's names and scores are dealt
MaxCrowd == 101
MaxDeals == 8
MaxPages == 2
MaxPageRounds == 3

\* ------------------------------------------------------- program constants
QUESTION_DURATION_MS == 10000
REVEAL_DURATION_MS == 3000
IDLE_BETWEEN_MS == 1500
STARTUP_DELAY_MS == 1000
MaxNameLen == 20
LeaderboardLimit == 100
PointsPerPlayer == 10

\* --------------------------------------------------------------- the inputs
SocketIds == 1..MaxSockets

Repeat(c, n) == [i \in 1..n |-> c]

\* Raw names a client can send with 'join': empty, blank, and a padded one of
\* 22 characters whose 20th character after trimming is a blank.
RawNames ==
    { <<>>,
      <<" ">>,
      <<" ">> \o Repeat("b", 19) \o <<" ", "c">> }

NumChoices == 2
ChoiceIndexes == 0..(NumChoices - 1)

\* The catalog of ./src/questions (read-only to the server): the question at
\* JS index i - 1 has id i and a correct index; odd ids carry an explanation.
Catalog(n) ==
    [i \in 1..n |-> [id |-> i,
                     correctIndex |-> i % NumChoices,
                     explanation |-> IF i % 2 = 1 THEN "because" ELSE ""]]

Catalogs == { Catalog(n) : n \in 0..MaxCatalog }

\* The question ids a client can send: those of the largest catalog, and one
\* more that no catalog holds.
QuestionIdInputs == 1..(MaxCatalog + 1)

\* JS null / undefined for the values that can be absent
NullQuestion == [id |-> 0, correctIndex |-> -1, explanation |-> ""]
NullPayload == [null |-> TRUE]
NoLock == 0
NullRank == 0
NullTimer == 0

\* ------------------------------------------------------------- the state
VARIABLES
    questions,             \* the catalog
    sockets,               \* io.sockets.sockets: ids of the live connections
    connectionsSeen,       \* how many connections were ever accepted
    playerIdToPlayer,
    playerNameToId,
    currentQuestionIndex,
    currentPhase,
    currentQuestion,
    questionStartedAt,
    questionEndsAt,
    submissionsThisRound,
    nextTimer,             \* the handle setTimeout returned, as stored in nextTimer
    timers,                \* the pending timers the scheduler armed: handle, callback
    timersArmed,           \* how many timers the scheduler armed (the next handle)
    startupTimer,          \* the timer of server.listen, pending or not
    shuffledOrder,         \* 0-based indices, as a 1-based sequence
    shuffledCursor,
    nowMs,                 \* Date.now()
    roundsStarted,         \* rounds started so far (bounds the run)
    drawn,                 \* history: the indices startNextQuestion chose, in order
    midJoinRound,          \* history: per socket, the round during whose question
                           \* phase its latest accepted join came (0: none)
    seatedAtStart,         \* history: the ids that had a player record when the
                           \* latest question phase started
    answeredNames,         \* history: the names under which a submission was
                           \* accepted since the latest question phase started
    page,                  \* per connection that runs client.js: the page's state
    out                    \* what the last handler emitted, in order

vars == <<questions, sockets, connectionsSeen, playerIdToPlayer, playerNameToId,
          currentQuestionIndex, currentPhase, currentQuestion, questionStartedAt,
          questionEndsAt, submissionsThisRound, nextTimer, timers, timersArmed,
          startupTimer, shuffledOrder, shuffledCursor, nowMs, roundsStarted, drawn,
          midJoinRound, seatedAtStart, answeredNames, page, out>>

registryVars == <<playerIdToPlayer, playerNameToId>>
roundVars == <<currentQuestionIndex, currentPhase, currentQuestion,
               questionStartedAt, questionEndsAt, nextTimer, timers, timersArmed,
               startupTimer, shuffledOrder, shuffledCursor, nowMs, roundsStarted,
               drawn>>

\* --------------------------------------------------------------- utilities
now == nowMs

IsBlank(c) == c = " "

RECURSIVE TrimStart(_)
TrimStart(s) ==
    IF s # <<>> /\ IsBlank(Head(s)) THEN TrimStart(Tail(s)) ELSE s

RECURSIVE TrimEnd(_)
TrimEnd(s) ==
    IF s # <<>> /\ IsBlank(s[Len(s)]) THEN TrimEnd(SubSeq(s, 1, Len(s) - 1)) ELSE s

Trim(s) == TrimEnd(TrimStart(s))

Slice(s, n) == SubSeq(s, 1, IF Len(s) < n THEN Len(s) ELSE n)

DefaultName == <<"P", "l", "a", "y", "e", "r">>

sanitizeName(raw) ==
    LET base == Slice(Trim(raw), MaxNameLen)
    IN  IF base = <<>> THEN DefaultName ELSE base

\* a.localeCompare(b): letters in alphabetical order whatever their case, the
\* blank before every letter, a proper prefix before the longer string
CharRank(c) ==
    CASE c = " " -> 0
      [] c = "a" -> 1
      [] c = "b" -> 2
      [] c = "c" -> 3
      [] c = "e" -> 5
      [] c = "l" -> 12
      [] c = "P" -> 16
      [] c = "y" -> 25
      [] OTHER -> 30

RECURSIVE localeCompare(_, _)
localeCompare(a, b) ==
    IF a = <<>> /\ b = <<>> THEN 0
    ELSE IF a = <<>> THEN -1
    ELSE IF b = <<>> THEN 1
    ELSE IF CharRank(Head(a)) < CharRank(Head(b)) THEN -1
    ELSE IF CharRank(Head(a)) > CharRank(Head(b)) THEN 1
    ELSE localeCompare(Tail(a), Tail(b))

\* mutant: the leaderboard is sorted by name alone
SortsBeforeByName(a, b) == localeCompare(a.name, b.name) < 0

\* the comparator of sortPlayersForLeaderboard puts a before b
SortsBefore(a, b) ==
    \/ b.score - a.score < 0
    \/ b.score - a.score = 0 /\ localeCompare(a.name, b.name) < 0

\* Array.prototype.sort with that comparator: a record's place is the number of
\* other records that come before it; records the comparator ties (none do: no two
\* records have the same name) are placed by id
SortRecords(S) ==
    LET placed == { <<Cardinality({ q \in S \ {p} :
                          \/ SortsBefore(q, p)
                          \/ ~SortsBefore(p, q) /\ q.id < p.id }), p>> : p \in S }
    IN  [k \in 1..Cardinality(S) |-> (CHOOSE place \in placed : place[1] = k - 1)[2]]

sortPlayersForLeaderboard(players) ==
    Slice(SortRecords({ players[i] : i \in DOMAIN players }), LeaderboardLimit)

publicLeaderboard(players) ==
    LET sorted == sortPlayersForLeaderboard(players)
    IN  [k \in 1..Len(sorted) |->
            [id |-> sorted[k].id, name |-> sorted[k].name, score |-> sorted[k].score]]

\* mutant: the answer is included whatever includeAnswer says
publicQuestionPayloadWithAnswer(question, endsAt, includeAnswer) ==
    IF question = NullQuestion THEN NullPayload
    ELSE [id |-> question.id, endsAt |-> endsAt,
          correctIndex |-> question.correctIndex,
          explanation |-> question.explanation]

publicQuestionPayload(question, endsAt, includeAnswer) ==
    IF question = NullQuestion THEN NullPayload
    ELSE IF includeAnswer
         THEN [id |-> question.id, endsAt |-> endsAt,
               correctIndex |-> question.correctIndex,
               explanation |-> question.explanation]
         ELSE [id |-> question.id, endsAt |-> endsAt]

\* io.emit(event, payload) and socket.emit(event, payload)
EmitAll(event, payload) == [to |-> 0, event |-> event, payload |-> payload]
EmitTo(id, event, payload) == [to |-> id, event |-> event, payload |-> payload]

\* mutant: the leaderboard goes out empty
LeaderboardMsgEmpty(players) == EmitAll("leaderboard", <<>>)

LeaderboardMsg(players) == EmitAll("leaderboard", publicLeaderboard(players))

broadcastState(players, phase, question, endsAt) ==
    <<LeaderboardMsg(players)>> \o
    (IF phase = "question"
     THEN <<EmitAll("question", publicQuestionPayload(question, endsAt, FALSE))>>
     ELSE IF phase = "reveal"
     THEN <<EmitAll("reveal", publicQuestionPayload(question, endsAt, TRUE))>>
     ELSE <<>>)

\* ------------------------------------------------------------ shuffle bag
\* array[i] for a JS index i
At(array, i) == array[i + 1]

Swap(array, i, j) ==
    [array EXCEPT ![i + 1] = At(array, j), ![j + 1] = At(array, i)]

\* the values Math.floor(Math.random() * (i + 1)) can take, for i = n-1 .. 1
RandomDraws(n) ==
    { js \in [1..(n - 1) -> 0..(n - 1)] : \A i \in 1..(n - 1) : js[i] <= i }

RECURSIVE fisherYatesLoop(_, _, _)
fisherYatesLoop(array, i, js) ==
    IF i > 0 THEN fisherYatesLoop(Swap(array, i, js[i]), i - 1, js) ELSE array

fisherYatesShuffle(array, js) == fisherYatesLoop(array, Len(array) - 1, js)

\* the orders buildShuffledOrder can produce for a catalog of `count` questions
buildShuffledOrder(count) ==
    LET order == [i \in 1..count |-> i - 1]
    IN  { fisherYatesShuffle(order, js) : js \in RandomDraws(count) }

\* mutant: the order is rebuilt one draw before it is exhausted
NeedsRebuildEarly ==
    \/ Len(shuffledOrder) # Len(questions)
    \/ shuffledCursor >= Len(shuffledOrder) - 2

NeedsRebuild ==
    \/ Len(shuffledOrder) # Len(questions)
    \/ shuffledCursor >= Len(shuffledOrder) - 1

\* ------------------------------------------------------------------ timers
\* setTimeout(callback, delay), returning `handle`
setTimeout(pending, handle, callback) ==
    pending \cup {[handle |-> handle, callback |-> callback]}

\* clearTimeout(handle): nothing happens for null or for a timer that fired
clearTimeout(pending, handle) == { timer \in pending : timer.handle # handle }

\* a timer that fires is no longer pending when its callback runs
Fired(pending, timer) == pending \ {timer}

\* ------------------------------------------------------------------- Init
\* the state after construction, for the catalogs and the connection ids given
InitOf(catalogs, ids) ==
    /\ questions \in catalogs
    /\ sockets = {}
    /\ connectionsSeen = 0
    /\ playerIdToPlayer = <<>>
    /\ playerNameToId = <<>>
    /\ currentQuestionIndex = -1
    /\ currentPhase = "idle"
    /\ currentQuestion = NullQuestion
    /\ questionStartedAt = 0
    /\ questionEndsAt = 0
    /\ submissionsThisRound = <<>>
    /\ nextTimer = NullTimer
    /\ timers = {}
    /\ timersArmed = 0
    /\ startupTimer = TRUE
    /\ shuffledOrder = <<>>
    /\ shuffledCursor = -1
    /\ nowMs = 0
    /\ roundsStarted = 0
    /\ drawn = <<>>
    /\ midJoinRound = [id \in ids |-> 0]
    /\ seatedAtStart = {}
    /\ answeredNames = {}
    /\ out = <<>>

\* the server alone: no connection runs client.js, any client may send anything
Init == InitOf(Catalogs, SocketIds) /\ page = <<>>

\* -------------------------------------------------------------- client.js
\* the page of a connection that has not heard from the server yet;
\* lastSentRound is history: the round in which the page last sent an answer
NullPage ==
    [joined |-> FALSE, lockedUntilQuestionId |-> NoLock, currentQuestion |-> NullQuestion.id,
     hasAnsweredThisRound |-> FALSE, answerLocked |-> FALSE, choices |-> "none",
     lastSentRound |-> 0]

\* showQuestion(q): the answered state is reset only when q's id differs from
\* the id of the question the page showed last
showQuestion(p, q) ==
    LET sameQuestion == p.currentQuestion # NullQuestion.id /\ p.currentQuestion = q.id
        answered == sameQuestion /\ p.hasAnsweredThisRound
        locked == p.lockedUntilQuestionId # NoLock /\ q.id = p.lockedUntilQuestionId
    IN  [p EXCEPT !.currentQuestion = q.id,
                  !.hasAnsweredThisRound = answered,
                  !.answerLocked = locked,
                  !.choices = IF locked \/ answered THEN "disabled" ELSE "enabled"]

\* showReveal(q): every choice button is disabled
showReveal(p) == [p EXCEPT !.choices = "disabled"]

clearQuestionUI(p) == [p EXCEPT !.choices = "none"]

\* socket.on('joined')
OnJoined(p, payload) ==
    LET shown == [p EXCEPT !.lockedUntilQuestionId = payload.self.lockedUntilQuestionId,
                           !.joined = TRUE]
    IN  IF payload.phase = "question" /\ payload.question # NullPayload
        THEN showQuestion(shown, payload.question)
        ELSE IF payload.phase = "reveal" /\ payload.reveal # NullPayload
        THEN showReveal(shown)
        ELSE clearQuestionUI(shown)

\* socket.on('question')
OnQuestion(p, q) ==
    showQuestion(IF p.lockedUntilQuestionId # NoLock /\ q.id # p.lockedUntilQuestionId
                 THEN [p EXCEPT !.answerLocked = FALSE, !.lockedUntilQuestionId = NoLock]
                 ELSE p,
                 q)

\* the page's handler of one message
On(p, msg) ==
    CASE msg.event = "joined" -> OnJoined(p, msg.payload)
      [] msg.event = "question" -> OnQuestion(p, msg.payload)
      [] msg.event = "reveal" -> showReveal(p)
      [] OTHER -> p

RECURSIVE HearAll(_, _)
HearAll(p, messages) ==
    IF messages = <<>> THEN p ELSE HearAll(On(p, Head(messages)), Tail(messages))

\* every live page handles, in order, the messages emitted to all and to it
Hear(pages, live, messages) ==
    [id \in DOMAIN pages |->
        IF id \in live
        THEN HearAll(pages[id],
                     SelectSeq(messages, LAMBDA msg : msg.to = 0 \/ msg.to = id))
        ELSE pages[id]]

\* a choice button can be clicked and its click handler goes on
CanClick(p) ==
    p.joined /\ p.choices = "enabled" /\ ~(p.hasAnsweredThisRound \/ p.answerLocked)

\* the click handler, up to socket.emit('answer')
Clicked(p, round) ==
    [p EXCEPT !.hasAnsweredThisRound = TRUE, !.choices = "disabled",
              !.lastSentRound = round]

\* -------------------------------------------------------- phase scheduler
\* mutant: an empty catalog is polled: the callback arms itself again
emptyCatalogPolled(pending) ==
    /\ currentPhase' = "idle"
    /\ out' = broadcastState(playerIdToPlayer, "idle", currentQuestion, questionEndsAt)
    /\ timers' = setTimeout(pending, timersArmed + 1, "startNextQuestion")
    /\ nextTimer' = timersArmed + 1
    /\ timersArmed' = timersArmed + 1
    /\ UNCHANGED <<currentQuestionIndex, currentQuestion, questionStartedAt,
                   questionEndsAt, submissionsThisRound,
                   shuffledOrder, shuffledCursor, roundsStarted, drawn>>

\* startNextQuestion with an empty catalog: it returns before any setTimeout
emptyCatalogIdle(pending) ==
    /\ currentPhase' = "idle"
    /\ out' = broadcastState(playerIdToPlayer, "idle", currentQuestion, questionEndsAt)
    /\ timers' = pending
    /\ UNCHANGED <<nextTimer, timersArmed>>
    /\ UNCHANGED <<currentQuestionIndex, currentQuestion, questionStartedAt,
                   questionEndsAt, submissionsThisRound,
                   shuffledOrder, shuffledCursor, roundsStarted, drawn>>

\* mutant: the ledger of the last round is kept
startNextQuestionKeepingLedger(t, pending) ==
    IF Len(questions) = 0
    THEN emptyCatalogIdle(pending)
    ELSE /\ \E order \in (IF NeedsRebuild
                          THEN buildShuffledOrder(Len(questions))
                          ELSE {shuffledOrder}) :
             LET cursor == (IF NeedsRebuild THEN -1 ELSE shuffledCursor) + 1
                 index == At(order, cursor)
                 question == At(questions, index)
             IN  /\ shuffledOrder' = order
                 /\ shuffledCursor' = cursor
                 /\ currentQuestionIndex' = index
                 /\ currentPhase' = "question"
                 /\ currentQuestion' = question
                 /\ questionStartedAt' = t
                 /\ questionEndsAt' = t + QUESTION_DURATION_MS
                 /\ submissionsThisRound' = submissionsThisRound
                 /\ out' = broadcastState(playerIdToPlayer, "question", question,
                                          t + QUESTION_DURATION_MS)
                 /\ drawn' = Append(drawn, index)
         /\ timers' = setTimeout(clearTimeout(pending, nextTimer),
                                 timersArmed + 1, "endQuestionAndReveal")
         /\ nextTimer' = timersArmed + 1
         /\ timersArmed' = timersArmed + 1
         /\ roundsStarted' = roundsStarted + 1

\* startNextQuestion, run at time t with the timers `pending`
startNextQuestion(t, pending) ==
    IF Len(questions) = 0
    THEN emptyCatalogIdle(pending)
    ELSE /\ \E order \in (IF NeedsRebuild
                          THEN buildShuffledOrder(Len(questions))
                          ELSE {shuffledOrder}) :
             LET cursor == (IF NeedsRebuild THEN -1 ELSE shuffledCursor) + 1
                 index == At(order, cursor)
                 question == At(questions, index)
             IN  /\ shuffledOrder' = order
                 /\ shuffledCursor' = cursor
                 /\ currentQuestionIndex' = index
                 /\ currentPhase' = "question"
                 /\ currentQuestion' = question
                 /\ questionStartedAt' = t
                 /\ questionEndsAt' = t + QUESTION_DURATION_MS
                 /\ submissionsThisRound' = <<>>
                 /\ out' = broadcastState(playerIdToPlayer, "question", question,
                                          t + QUESTION_DURATION_MS)
                 /\ drawn' = Append(drawn, index)
         /\ timers' = setTimeout(clearTimeout(pending, nextTimer),
                                 timersArmed + 1, "endQuestionAndReveal")
         /\ nextTimer' = timersArmed + 1
         /\ timersArmed' = timersArmed + 1
         /\ roundsStarted' = roundsStarted + 1

\* history: the records a question phase starts with
SeatedAfterStart ==
    IF currentPhase' = "question" THEN DOMAIN playerIdToPlayer ELSE seatedAtStart

\* history: a question phase starts with no submission accepted
AnsweredAfterStart == IF currentPhase' = "question" THEN {} ELSE answeredNames

\* a non-empty catalog starts at most `limit` rounds
MayStart(limit) == Len(questions) = 0 \/ roundsStarted < limit

\* the timer of server.listen fires (it is the first timer: no round started)
StartupTimerFires ==
    /\ startupTimer
    /\ startupTimer' = FALSE
    /\ nowMs' = nowMs + STARTUP_DELAY_MS
    /\ startNextQuestion(nowMs + STARTUP_DELAY_MS, timers)
    /\ seatedAtStart' = SeatedAfterStart
    /\ answeredNames' = AnsweredAfterStart
    /\ UNCHANGED <<questions, sockets, connectionsSeen, registryVars, midJoinRound>>
    /\ page' = Hear(page, sockets', out')

\* the timer armed by endQuestionAndReveal's callback fires
IdleTimer(limit) ==
    \E timer \in timers :
        /\ timer.callback = "startNextQuestion"
        /\ MayStart(limit)
        /\ nowMs' = nowMs + IDLE_BETWEEN_MS
        /\ startNextQuestion(nowMs + IDLE_BETWEEN_MS, Fired(timers, timer))
        /\ seatedAtStart' = SeatedAfterStart
        /\ answeredNames' = AnsweredAfterStart
        /\ UNCHANGED <<questions, sockets, connectionsSeen, registryVars, startupTimer,
                       midJoinRound>>
        /\ page' = Hear(page, sockets', out')

IdleTimerFires == IdleTimer(MaxRounds)

\* mutant: the question ends straight into idle
endQuestionSkippingReveal(pending) ==
    /\ currentPhase' = "idle"
    /\ out' = broadcastState(playerIdToPlayer, "idle", currentQuestion, questionEndsAt)
    /\ timers' = setTimeout(clearTimeout(pending, nextTimer),
                            timersArmed + 1, "startNextQuestion")
    /\ nextTimer' = timersArmed + 1
    /\ timersArmed' = timersArmed + 1

\* endQuestionAndReveal, run with the timers `pending`
endQuestionAndReveal(pending) ==
    /\ currentPhase' = "reveal"
    /\ out' = broadcastState(playerIdToPlayer, "reveal", currentQuestion, questionEndsAt)
    /\ timers' = setTimeout(clearTimeout(pending, nextTimer),
                            timersArmed + 1, "revealDone")
    /\ nextTimer' = timersArmed + 1
    /\ timersArmed' = timersArmed + 1

\* the timer armed by startNextQuestion fires
QuestionTimerFires ==
    \E timer \in timers :
        /\ timer.callback = "endQuestionAndReveal"
        /\ nowMs' = nowMs + QUESTION_DURATION_MS
        /\ endQuestionAndReveal(Fired(timers, timer))
        /\ UNCHANGED <<questions, sockets, connectionsSeen, registryVars,
                       currentQuestionIndex, currentQuestion, questionStartedAt,
                       questionEndsAt, submissionsThisRound, startupTimer,
                       shuffledOrder, shuffledCursor, roundsStarted, drawn,
                       midJoinRound, seatedAtStart,
                       answeredNames>>
        /\ page' = Hear(page, sockets', out')

\* mutant: the reveal ends without arming the next question
revealDoneUnarmed(pending) ==
    /\ currentPhase' = "idle"
    /\ out' = broadcastState(playerIdToPlayer, "idle", currentQuestion, questionEndsAt)
    /\ timers' = clearTimeout(pending, nextTimer)
    /\ UNCHANGED <<nextTimer, timersArmed>>

\* the arrow callback of endQuestionAndReveal's timer
revealDone(pending) ==
    /\ currentPhase' = "idle"
    /\ out' = broadcastState(playerIdToPlayer, "idle", currentQuestion, questionEndsAt)
    /\ timers' = setTimeout(clearTimeout(pending, nextTimer),
                            timersArmed + 1, "startNextQuestion")
    /\ nextTimer' = timersArmed + 1
    /\ timersArmed' = timersArmed + 1

\* the timer armed by endQuestionAndReveal fires
RevealTimerFires ==
    \E timer \in timers :
        /\ timer.callback = "revealDone"
        /\ nowMs' = nowMs + REVEAL_DURATION_MS
        /\ revealDone(Fired(timers, timer))
        /\ UNCHANGED <<questions, sockets, connectionsSeen, registryVars,
                       currentQuestionIndex, currentQuestion, questionStartedAt,
                       questionEndsAt, submissionsThisRound, startupTimer,
                       shuffledOrder, shuffledCursor, roundsStarted, drawn,
                       midJoinRound, seatedAtStart,
                       answeredNames>>
        /\ page' = Hear(page, sockets', out')

\* ------------------------------------------------------ socket.io handlers
Without(f, k) == [x \in DOMAIN f \ {k} |-> f[x]]
With(f, k, v) == [x \in DOMAIN f \cup {k} |-> IF x = k THEN v ELSE f[x]]

NewPlayer(id, name, score) ==
    [id |-> id, name |-> name, score |-> score, connected |-> TRUE,
     lockedUntilQuestionId |-> NoLock]

\* mutant: the name is never bound
BindNameForgotten(names, name, id) == names

\* playerNameToId.set(finalName, playerId)
BindName(names, name, id) == With(names, name, id)

\* mutant: a reclaim starts from zero
ReclaimedScoreReset(existing) == 0

\* the score a reclaiming connection's record starts with
ReclaimedScore(existing) == existing.score

\* io.sockets.sockets.has(existingId)
InUse(existingId) == existingId \in sockets

NameTaken == "That name is already taken. Please choose a different name."

\* mutant: io.emit in place of socket.emit
JoinErrorBroadcast(id) == <<EmitAll("join_error", [reason |-> NameTaken])>>

JoinError(id) == <<EmitTo(id, "join_error", [reason |-> NameTaken])>>

\* the lock a joining player gets: the active question's id, or none
LockOnJoin ==
    IF currentPhase = "question" /\ currentQuestion # NullQuestion
    THEN currentQuestion.id
    ELSE NoLock

JoinedMsg(id, players) ==
    EmitTo(id, "joined",
           [self |-> players[id],
            leaderboard |-> publicLeaderboard(players),
            phase |-> currentPhase,
            question |-> IF currentPhase = "question"
                         THEN publicQuestionPayload(currentQuestion, questionEndsAt, FALSE)
                         ELSE NullPayload,
            reveal |-> IF currentPhase = "reveal"
                       THEN publicQuestionPayload(currentQuestion, questionEndsAt, TRUE)
                       ELSE NullPayload])

\* mutant: every new connection schedules a question of its own
ConnectStartingGame(limit) ==
    /\ connectionsSeen < limit
    /\ connectionsSeen' = connectionsSeen + 1
    /\ sockets' = sockets \cup {connectionsSeen + 1}
    /\ out' = <<>>
    /\ timers' = setTimeout(timers, timersArmed + 1, "startNextQuestion")
    /\ timersArmed' = timersArmed + 1
    /\ UNCHANGED <<questions, registryVars, currentQuestionIndex, currentPhase,
                   currentQuestion, questionStartedAt, questionEndsAt, nextTimer,
                   startupTimer, shuffledOrder, shuffledCursor, nowMs, roundsStarted,
                   drawn, submissionsThisRound, midJoinRound, seatedAtStart,
                   answeredNames>>
    /\ page' = Hear(page, sockets', out')

\* io.on('connection'): a new socket, with an id no socket had before; at most
\* `limit` connections are ever accepted
ConnectUpTo(limit) ==
    /\ connectionsSeen < limit
    /\ connectionsSeen' = connectionsSeen + 1
    /\ sockets' = sockets \cup {connectionsSeen + 1}
    /\ out' = <<>>
    /\ UNCHANGED <<questions, registryVars, roundVars, submissionsThisRound,
                   midJoinRound, seatedAtStart,
                   answeredNames>>
    /\ page' = Hear(page, sockets', out')

Connect == ConnectUpTo(MaxSockets)

\* socket.on('join') of socket id
Join(id, raw) ==
    /\ id \in sockets
    /\ LET finalName == sanitizeName(raw)
           bound == finalName \in DOMAIN playerNameToId
           existingId == playerNameToId[finalName]
           hasExisting == bound /\ existingId \in DOMAIN playerIdToPlayer
           existing == playerIdToPlayer[existingId]
           \* after the reclaim block
           players1 == IF hasExisting
                       THEN With(Without(playerIdToPlayer, existingId), id,
                                 NewPlayer(id, finalName, ReclaimedScore(existing)))
                       ELSE playerIdToPlayer
           names1 == IF hasExisting
                     THEN BindName(playerNameToId, finalName, id)
                     ELSE playerNameToId
           fresh == id \notin DOMAIN players1
           \* after the create-or-reconnect block
           players2 == IF fresh
                       THEN With(players1, id, NewPlayer(id, finalName, 0))
                       ELSE [players1 EXCEPT ![id].connected = TRUE]
           names2 == IF fresh THEN BindName(names1, finalName, id) ELSE names1
           \* after the lock block
           players3 == [players2 EXCEPT ![id].lockedUntilQuestionId = LockOnJoin]
           \* history: the joiner's round, and none for a record that was deleted
           joined == [midJoinRound EXCEPT
                         ![id] = IF LockOnJoin # NoLock THEN roundsStarted ELSE 0]
       IN  IF hasExisting /\ InUse(existingId)
           THEN /\ out' = JoinError(id)
                /\ UNCHANGED <<registryVars, midJoinRound>>
           ELSE IF fresh /\ finalName \in DOMAIN names1
           THEN /\ out' = JoinError(id)
                /\ UNCHANGED <<registryVars, midJoinRound>>
           ELSE /\ playerIdToPlayer' = players3
                /\ playerNameToId' = names2
                /\ midJoinRound' = [i \in DOMAIN midJoinRound |->
                                        IF i \in DOMAIN players3 THEN joined[i] ELSE 0]
                /\ out' = <<JoinedMsg(id, players3)>> \o
                          broadcastState(players3, currentPhase, currentQuestion,
                                         questionEndsAt)
    /\ UNCHANGED <<questions, sockets, connectionsSeen, roundVars, submissionsThisRound,
                   seatedAtStart,
                   answeredNames>>

\* mutant: every choice counts as correct
isCorrectChoiceAlways(choiceIndex) == TRUE

isCorrectChoice(choiceIndex) == choiceIndex = currentQuestion.correctIndex

\* mutant: the question id of an answer is not looked at
StaleQuestionNever(questionId) == FALSE

\* !currentQuestion || questionId !== currentQuestion.id
StaleQuestion(questionId) ==
    currentQuestion = NullQuestion \/ questionId # currentQuestion.id

\* mutant: the one-submission check is missing
HasSubmittedNever(id) == FALSE

\* submissionsThisRound.has(playerId)
HasSubmitted(id) == id \in DOMAIN submissionsThisRound

\* mutant: the late-join check is missing
IsLockedNever(player) == FALSE

IsLocked(player) ==
    /\ player.lockedUntilQuestionId # NoLock
    /\ currentQuestion # NullQuestion
    /\ player.lockedUntilQuestionId = currentQuestion.id

\* mutant: every ledger entry counts, correct or not
CorrectSoFarCountingAll == Cardinality(DOMAIN submissionsThisRound)

CorrectSoFar ==
    Cardinality({ i \in DOMAIN submissionsThisRound : submissionsThisRound[i].correct })

NumConnectedPlayers ==
    Cardinality({ i \in DOMAIN playerIdToPlayer : playerIdToPlayer[i].connected })

\* mutant: the current guess counts among the correct guesses so far
PointsCountingOwnGuess(numConnectedPlayers, correctSoFar) ==
    (PointsPerPlayer * numConnectedPlayers) - (PointsPerPlayer * (correctSoFar + 1))

Points(numConnectedPlayers, correctSoFar) ==
    (PointsPerPlayer * numConnectedPlayers) - (PointsPerPlayer * correctSoFar)

Rejected(id, reason) == <<EmitTo(id, "answer_result", [ok |-> FALSE, reason |-> reason])>>

NotAccepting == "Not accepting answers right now."
NoLongerActive == "Question no longer active."
AlreadyAnswered == "You already answered."
UnknownPlayer == "Unknown player."
JoinedMidQuestion == "You joined mid-question. Please wait for the next question."

\* socket.on('answer') of socket id
Answer(id, questionId, choiceIndex) ==
    /\ id \in sockets
    /\ IF currentPhase # "question"
       THEN /\ out' = Rejected(id, NotAccepting)
            /\ UNCHANGED <<playerIdToPlayer, submissionsThisRound>>
       ELSE IF StaleQuestion(questionId)
       THEN /\ out' = Rejected(id, NoLongerActive)
            /\ UNCHANGED <<playerIdToPlayer, submissionsThisRound>>
       ELSE IF HasSubmitted(id)
       THEN /\ out' = Rejected(id, AlreadyAnswered)
            /\ UNCHANGED <<playerIdToPlayer, submissionsThisRound>>
       ELSE IF id \notin DOMAIN playerIdToPlayer
       THEN /\ out' = Rejected(id, UnknownPlayer)
            /\ UNCHANGED <<playerIdToPlayer, submissionsThisRound>>
       ELSE IF IsLocked(playerIdToPlayer[id])
       THEN /\ out' = Rejected(id, JoinedMidQuestion)
            /\ UNCHANGED <<playerIdToPlayer, submissionsThisRound>>
       ELSE LET correct == isCorrectChoice(choiceIndex)
                correctSoFar == CorrectSoFar
                rank == IF correct THEN correctSoFar + 1 ELSE NullRank
                points == IF correct
                          THEN Points(NumConnectedPlayers, correctSoFar)
                          ELSE 0
                players == IF correct
                           THEN [playerIdToPlayer EXCEPT ![id].score = @ + points]
                           ELSE playerIdToPlayer
            IN  /\ submissionsThisRound' =
                       With(submissionsThisRound, id,
                            [choiceIndex |-> choiceIndex, correct |-> correct,
                             points |-> points, answeredAt |-> now])
                /\ playerIdToPlayer' = players
                /\ out' = <<EmitTo(id, "answer_result",
                                   [ok |-> TRUE, correct |-> correct, points |-> points,
                                    rank |-> rank,
                                    leaderboard |-> publicLeaderboard(players)]),
                            LeaderboardMsg(players)>>
    /\ answeredNames' =
           IF submissionsThisRound' # submissionsThisRound
           THEN answeredNames \cup {playerIdToPlayer[id].name}
           ELSE answeredNames
    /\ UNCHANGED <<questions, sockets, connectionsSeen, playerNameToId, roundVars,
                   midJoinRound, seatedAtStart>>

\* mutant: the record is deleted
DisconnectDeleting(id) ==
    /\ id \in sockets
    /\ sockets' = sockets \ {id}
    /\ playerIdToPlayer' = Without(playerIdToPlayer, id)
    /\ out' = <<>>
    /\ UNCHANGED <<questions, connectionsSeen, playerNameToId, roundVars,
                   submissionsThisRound, midJoinRound, seatedAtStart,
                   answeredNames>>

\* socket.on('disconnect') of socket id; socket.io has removed the socket
\* from io.sockets.sockets when the handler runs
Disconnect(id) ==
    /\ id \in sockets
    /\ sockets' = sockets \ {id}
    /\ playerIdToPlayer' =
           IF id \in DOMAIN playerIdToPlayer
           THEN [playerIdToPlayer EXCEPT ![id].connected = FALSE]
           ELSE playerIdToPlayer
    /\ out' = <<>>
    /\ UNCHANGED <<questions, connectionsSeen, playerNameToId, roundVars,
                   submissionsThisRound, midJoinRound, seatedAtStart,
                   answeredNames>>

\* ------------------------------------------------------------------- Next
JoinEvent ==
    \E id \in sockets, raw \in RawNames :
        Join(id, raw) /\ page' = Hear(page, sockets', out')

AnswerEvent ==
    \E id \in sockets, questionId \in QuestionIdInputs, choiceIndex \in ChoiceIndexes :
        Answer(id, questionId, choiceIndex) /\ page' = Hear(page, sockets', out')

DisconnectEvent ==
    \E id \in sockets : Disconnect(id) /\ page' = Hear(page, sockets', out')

TimerFires ==
    \/ StartupTimerFires
    \/ QuestionTimerFires
    \/ RevealTimerFires
    \/ IdleTimerFires

Next ==
    \/ Connect
    \/ JoinEvent
    \/ AnswerEvent
    \/ DisconnectEvent
    \/ TimerFires

Spec == Init /\ [][Next]_vars

\* The registry alone: an empty catalog, where the scheduler stays idle, and
\* up to MaxConnections connections.
InitRegistry == InitOf({Catalog(0)}, 1..MaxConnections) /\ page = <<>>

NextRegistry ==
    \/ ConnectUpTo(MaxConnections)
    \/ JoinEvent
    \/ AnswerEvent
    \/ DisconnectEvent
    \/ StartupTimerFires

SpecRegistry == InitRegistry /\ [][NextRegistry]_vars

\* The scheduler alone: no connection, catalogs of 1..MaxBag questions and up
\* to MaxDraws rounds.
InitShuffle == InitOf({ Catalog(n) : n \in 1..MaxBag }, {}) /\ page = <<>>

NextShuffle ==
    \/ StartupTimerFires
    \/ QuestionTimerFires
    \/ RevealTimerFires
    \/ IdleTimer(MaxDraws)

SpecShuffle == InitShuffle /\ [][NextShuffle]_vars

\* The leaderboard of a crowd: one question, and a registry of MaxCrowd - 1 or
\* MaxCrowd players who each joined alone under a name of their own, scored 0,
\* 10 or 20 points in rounds of their own and left; one more round went by,
\* its reveal is over, and the next question is not due yet.
Letters == <<"a", "b", "c", "e", "l", "y">>

CrowdName(i) ==
    <<Letters[((i \div 36) % 6) + 1], Letters[((i \div 6) % 6) + 1], Letters[(i % 6) + 1]>>

CrowdScore(i, deal) == PointsPerPlayer * ((i * deal) % 3)

Crowd(n, deal) ==
    [i \in 1..n |-> [id |-> i, name |-> CrowdName((i * (deal + 1)) % 211),
                     score |-> CrowdScore(i, deal), connected |-> FALSE,
                     lockedUntilQuestionId |-> NoLock]]

RECURSIVE CrowdRounds(_, _)
CrowdRounds(n, deal) ==
    IF n = 0 THEN 1 ELSE CrowdRounds(n - 1, deal) + ((n * deal) % 3)

RoundLength == QUESTION_DURATION_MS + REVEAL_DURATION_MS + IDLE_BETWEEN_MS

InitCrowd ==
    \E n \in (MaxCrowd - 1)..MaxCrowd, deal \in 1..MaxDeals :
        LET rounds == CrowdRounds(n, deal)
            started == STARTUP_DELAY_MS + (rounds - 1) * RoundLength
        IN  /\ questions = Catalog(1)
            /\ sockets = {}
            /\ connectionsSeen = n
            /\ playerIdToPlayer = Crowd(n, deal)
            /\ playerNameToId =
                   [name \in { CrowdName((i * (deal + 1)) % 211) : i \in 1..n } |->
                       CHOOSE i \in 1..n : CrowdName((i * (deal + 1)) % 211) = name]
            /\ currentQuestionIndex = 0
            /\ currentPhase = "idle"
            /\ currentQuestion = At(Catalog(1), 0)
            /\ questionStartedAt = started
            /\ questionEndsAt = started + QUESTION_DURATION_MS
            /\ submissionsThisRound = <<>>
            /\ nextTimer = 3 * rounds
            /\ timers = {[handle |-> 3 * rounds, callback |-> "startNextQuestion"]}
            /\ timersArmed = 3 * rounds
            /\ startupTimer = FALSE
            /\ shuffledOrder = <<0>>
            /\ shuffledCursor = 0
            /\ nowMs = started + QUESTION_DURATION_MS + REVEAL_DURATION_MS
            /\ roundsStarted = rounds
            /\ drawn = [k \in 1..rounds |-> 0]
            /\ midJoinRound = [id \in 1..MaxCrowd |-> 0]
            /\ seatedAtStart = 1..n
            /\ answeredNames = {}
            /\ page = <<>>
            /\ out = broadcastState(Crowd(n, deal), "idle", At(Catalog(1), 0),
                                    started + QUESTION_DURATION_MS)

NextCrowd ==
    \/ ConnectUpTo(MaxCrowd)
    \/ JoinEvent
    \/ AnswerEvent
    \/ DisconnectEvent

SpecCrowd == InitCrowd /\ [][NextCrowd]_vars

\* The server with connections that all run client.js: up to MaxPages pages,
\* MaxPageRounds rounds, catalogs of 1..MaxCatalog questions.  The server's
\* messages reach the pages at once.
InitClient ==
    /\ InitOf({ Catalog(n) : n \in 1..MaxCatalog }, 1..MaxPages)
    /\ page = [id \in 1..MaxPages |-> NullPage]

\* the join button (or the auto-join of a saved name) of a page that shows
\* the join screen
PageJoinEvent ==
    \E id \in sockets \cap DOMAIN page, raw \in RawNames :
        /\ ~page[id].joined
        /\ Join(id, raw)
        /\ page' = Hear(page, sockets', out')

\* a click on a choice button
PageClickEvent ==
    \E id \in sockets \cap DOMAIN page, choiceIndex \in ChoiceIndexes :
        /\ CanClick(page[id])
        /\ Answer(id, page[id].currentQuestion, choiceIndex)
        /\ page' = Hear([page EXCEPT ![id] = Clicked(@, roundsStarted)], sockets', out')

NextClient ==
    \/ ConnectUpTo(MaxPages)
    \/ PageJoinEvent
    \/ PageClickEvent
    \/ DisconnectEvent
    \/ StartupTimerFires
    \/ QuestionTimerFires
    \/ RevealTimerFires
    \/ IdleTimer(MaxPageRounds)

SpecClient == InitClient /\ [][NextClient]_vars

\* The server with timers that fire: non-empty catalogs, up to MaxLiveSockets
\* connections and MaxLiveRounds rounds.
InitLive ==
    InitOf({ Catalog(n) : n \in 1..MaxCatalog }, 1..MaxLiveSockets) /\ page = <<>>

NextLive ==
    \/ ConnectUpTo(MaxLiveSockets)
    \/ JoinEvent
    \/ AnswerEvent
    \/ DisconnectEvent
    \/ StartupTimerFires
    \/ QuestionTimerFires
    \/ RevealTimerFires
    \/ IdleTimer(MaxLiveRounds)

\* an armed timer fires once its delay has passed
Fairness ==
    /\ WF_vars(StartupTimerFires)
    /\ WF_vars(QuestionTimerFires)
    /\ WF_vars(RevealTimerFires)
    /\ WF_vars(IdleTimer(MaxLiveRounds))

SpecLive == InitLive /\ [][NextLive]_vars /\ Fairness

\* ============================================================== the claims
AnswerResultTo(id) ==
    /\ Len(out) > 0
    /\ out[1].event = "answer_result"
    /\ out[1].to = id

AcceptedAnswer(id) == AnswerResultTo(id) /\ out[1].payload.ok

ConnectedIds == { i \in DOMAIN playerIdToPlayer : playerIdToPlayer[i].connected }

CorrectIds ==
    { i \in DOMAIN submissionsThisRound : submissionsThisRound[i].correct }

\* C1: an accepted correct answer is awarded 10 x (players with connected=true
\* when it is processed) - 10 x (correct ledger entries before it), and the
\* submitter's score grows by exactly that amount.
C1_PointsFormula ==
    [][\A id \in SocketIds :
          (AcceptedAnswer(id)' /\ out'[1].payload.correct) =>
              LET award == 10 * Cardinality(ConnectedIds) - 10 * Cardinality(CorrectIds)
              IN  /\ out'[1].payload.points = award
                  /\ submissionsThisRound'[id].points = award
                  /\ playerIdToPlayer'[id].score = playerIdToPlayer[id].score + award
                  /\ \A other \in DOMAIN playerIdToPlayer \ {id} :
                         playerIdToPlayer'[other] = playerIdToPlayer[other]]_vars

\* C1 witness: two connected players, both correct: 20 then 10.
C1_TwentyThenTen ==
    \E a \in SocketIds, b \in SocketIds :
        /\ a # b
        /\ ConnectedIds = {a, b}
        /\ DOMAIN submissionsThisRound = {a, b}
        /\ submissionsThisRound[a].points = 20
        /\ submissionsThisRound[b].points = 10
        /\ AcceptedAnswer(b)
        /\ out[1].payload.points = 10
        /\ out[1].payload.rank = 2

\* C2: a second answer of the same connection in the same round, carrying the
\* active question id, is rejected with 'You already answered.' and changes
\* no score and no ledger entry.
C2_DuplicateRejected ==
    [][\A id \in SocketIds, q \in QuestionIdInputs, c \in ChoiceIndexes :
          ( /\ currentPhase = "question"
            /\ q = currentQuestion.id
            /\ id \in DOMAIN submissionsThisRound
            /\ Answer(id, q, c) ) =>
              /\ out' = Rejected(id, AlreadyAnswered)
              /\ UNCHANGED <<playerIdToPlayer, submissionsThisRound>>]_vars

\* C2 witness: a player with a ledger entry was just told 'You already answered.'
C2_SecondAttempt ==
    \E id \in DOMAIN submissionsThisRound :
        /\ currentPhase = "question"
        /\ out = Rejected(id, AlreadyAnswered)

\* C3: no two records with connected=true share a name.
C3_UniqueConnectedNames ==
    \A i \in DOMAIN playerIdToPlayer, j \in DOMAIN playerIdToPlayer :
        ( /\ i # j
          /\ playerIdToPlayer[i].connected
          /\ playerIdToPlayer[j].connected ) =>
            playerIdToPlayer[i].name # playerIdToPlayer[j].name

\* C3 witness: a connection without a record was refused a name while another
\* connection, holding a record, is connected.
C3_NameRefused ==
    \E id \in sockets, holder \in ConnectedIds :
        /\ id # holder
        /\ id \notin DOMAIN playerIdToPlayer
        /\ out = JoinError(id)

\* C4: a join from a connection without a record, with the name of a
\* disconnected record, gives the new connection that record's score and
\* deletes the old connection's record.
C4_ReclaimKeepsScore ==
    [][\A id \in SocketIds, raw \in RawNames, old \in DOMAIN playerIdToPlayer :
          ( /\ id \notin DOMAIN playerIdToPlayer
            /\ ~playerIdToPlayer[old].connected
            /\ playerIdToPlayer[old].name = sanitizeName(raw)
            /\ Join(id, raw) ) =>
              /\ id \in DOMAIN playerIdToPlayer'
              /\ old \notin DOMAIN playerIdToPlayer'
              /\ playerIdToPlayer'[id].score = playerIdToPlayer[old].score
              /\ playerIdToPlayer'[id].name = playerIdToPlayer[old].name
              /\ playerIdToPlayer'[id].connected]_vars

\* C4 witness: in the first round the second connection has just joined, holds
\* the only name ever bound, has points without a ledger entry of its own, and
\* the first connection's record is gone.
C4_ReclaimedWithPoints ==
    /\ roundsStarted = 1
    /\ connectionsSeen = 2
    /\ DOMAIN playerIdToPlayer = {2}
    /\ Cardinality(DOMAIN playerNameToId) = 1
    /\ 2 \notin DOMAIN submissionsThisRound
    /\ playerIdToPlayer[2].score > 0
    /\ Len(out) > 0
    /\ out[1].event = "joined"
    /\ out[1].to = 2

\* the connection's latest accepted join came during the question phase that
\* is still running
JoinedThisQuestion(id) ==
    /\ id \in DOMAIN playerIdToPlayer
    /\ currentPhase = "question"
    /\ roundsStarted > 0
    /\ midJoinRound[id] = roundsStarted

\* C5 as stated: every answer for the active question from a player who joined
\* during it is rejected as late-join-locked and changes no score, no ledger.
C5_AlwaysLateJoinLocked ==
    [][\A id \in SocketIds, q \in QuestionIdInputs, c \in ChoiceIndexes :
          ( /\ JoinedThisQuestion(id)
            /\ q = currentQuestion.id
            /\ Answer(id, q, c) ) =>
              /\ out' = Rejected(id, JoinedMidQuestion)
              /\ UNCHANGED <<playerIdToPlayer, submissionsThisRound>>]_vars

\* C5 amended: every such answer is rejected and changes no score and no
\* ledger entry; the rejection is 'You already answered.' when the connection
\* already has a ledger entry for the round, late-join-locked otherwise.
C5_LateJoinerRejected ==
    [][\A id \in SocketIds, q \in QuestionIdInputs, c \in ChoiceIndexes :
          ( /\ JoinedThisQuestion(id)
            /\ q = currentQuestion.id
            /\ Answer(id, q, c) ) =>
              /\ out' = Rejected(id, IF id \in DOMAIN submissionsThisRound
                                     THEN AlreadyAnswered
                                     ELSE JoinedMidQuestion)
              /\ UNCHANGED <<playerIdToPlayer, submissionsThisRound>>]_vars

\* C5 witness: a player who joined during the running question was just
\* rejected as late-join-locked.
C5_LockedOut ==
    \E id \in SocketIds :
        /\ JoinedThisQuestion(id)
        /\ out = Rejected(id, JoinedMidQuestion)

\* C6: a player whose latest join came during the previous round's question
\* phase gets the first answer to the next question accepted.
C6_NextQuestionAnswerable ==
    [][\A id \in SocketIds, q \in QuestionIdInputs, c \in ChoiceIndexes :
          ( /\ id \in DOMAIN playerIdToPlayer
            /\ currentPhase = "question"
            /\ midJoinRound[id] > 0
            /\ midJoinRound[id] = roundsStarted - 1
            /\ q = currentQuestion.id
            /\ id \notin DOMAIN submissionsThisRound
            /\ Answer(id, q, c) ) =>
              /\ out' # Rejected(id, JoinedMidQuestion)
              /\ AcceptedAnswer(id)']_vars

\* C7: the phase moves only idle -> question, question -> reveal and
\* reveal -> idle, only when a timer fires; connection, join, answer and
\* disconnect events leave the phase, the active question and endsAt alone.
C7_PhaseCycle ==
    [][ /\ currentPhase' # currentPhase =>
             /\ TimerFires
             /\ <<currentPhase, currentPhase'>> \in
                    { <<"idle", "question">>, <<"question", "reveal">>,
                      <<"reveal", "idle">> }
        /\ ~UNCHANGED <<currentPhase, currentQuestion, questionEndsAt>> =>
             ~(Connect \/ JoinEvent \/ AnswerEvent \/ DisconnectEvent) ]_vars

\* C7 witness: the second round's question phase, reached through a whole cycle.
C7_SecondQuestion ==
    /\ roundsStarted = 2
    /\ currentPhase = "question"
    /\ DOMAIN playerIdToPlayer # {}

\* the question payloads among the messages of the last handler
Exposes(payload) ==
    "correctIndex" \in DOMAIN payload \/ "explanation" \in DOMAIN payload

SentPayloads ==
    { out[k].payload : k \in { n \in 1..Len(out) : out[n].event \in {"question", "reveal"} } }
    \cup { out[k].payload.question :
               k \in { n \in 1..Len(out) : out[n].event = "joined" } }
    \cup { out[k].payload.reveal :
               k \in { n \in 1..Len(out) : out[n].event = "joined" } }

\* C8: a payload sent to clients carries correctIndex or explanation only in
\* the reveal phase; in the question phase every question payload omits both;
\* in the idle phase no question payload is sent.
C8_AnswerHiddenUntilReveal ==
    \A payload \in SentPayloads :
        /\ Exposes(payload) => currentPhase = "reveal"
        /\ currentPhase = "question" =>
               payload = NullPayload \/ DOMAIN payload = {"id", "endsAt"}
        /\ currentPhase = "idle" => payload = NullPayload

\* C8 witness: a join during reveal: the reply and the broadcast carry the answer.
C8_RevealSent ==
    /\ currentPhase = "reveal"
    /\ Len(out) = 3
    /\ out[1].event = "joined"
    /\ Exposes(out[1].payload.reveal)
    /\ out[3].event = "reveal"
    /\ Exposes(out[3].payload)

IsRejection(msg) ==
    \/ msg.event = "join_error"
    \/ msg.event = "answer_result" /\ ~msg.payload.ok

\* C9: a handler that answers with join_error or ok=false leaves the
\* registry, the ledger, the phase and the active question as they were and
\* emits that one message, to the originating connection only.
C9_RejectionsChangeNothing ==
    [][(\E k \in 1..Len(out') : IsRejection(out'[k])) =>
          /\ UNCHANGED <<playerIdToPlayer, playerNameToId, submissionsThisRound,
                         currentPhase, currentQuestion, questionEndsAt>>
          /\ Len(out') = 1
          /\ out'[1].to \in sockets
          /\ \/ \E raw \in RawNames : Join(out'[1].to, raw)
             \/ \E q \in QuestionIdInputs, c \in ChoiceIndexes :
                    Answer(out'[1].to, q, c)]_vars

\* C9 witness: a join was refused while the registry holds a record and a
\* round is running.
C9_JoinRefused ==
    /\ Len(out) = 1
    /\ out[1].event = "join_error"
    /\ DOMAIN playerIdToPlayer # {}
    /\ DOMAIN submissionsThisRound # {}

\* the score the registry holds for a name: the record the name is bound to
NameHasScore(name) ==
    /\ name \in DOMAIN playerNameToId
    /\ playerNameToId[name] \in DOMAIN playerIdToPlayer

NameScore(name) == playerIdToPlayer[playerNameToId[name]].score

BoundNames == { sanitizeName(raw) : raw \in RawNames }

\* C10: the score held for a name never decreases, whatever the event.
C10_ScoreNeverDecreases ==
    [][\A name \in BoundNames :
          (NameHasScore(name) /\ NameHasScore(name)') =>
              NameScore(name)' >= NameScore(name)]_vars

\* every name entry points to a record
NoDanglingName ==
    \A name \in DOMAIN playerNameToId : playerNameToId[name] \in DOMAIN playerIdToPlayer

\* C11: after every handler, every entry name -> id of playerNameToId points to
\* an id with a record in playerIdToPlayer whose name is that name, and every
\* record's name maps back to the record's id.
C11_RegistryConsistent ==
    /\ \A name \in DOMAIN playerNameToId :
           /\ playerNameToId[name] \in DOMAIN playerIdToPlayer
           /\ playerIdToPlayer[playerNameToId[name]].name = name
    /\ \A id \in DOMAIN playerIdToPlayer :
           /\ playerIdToPlayer[id].name \in DOMAIN playerNameToId
           /\ playerNameToId[playerIdToPlayer[id].name] = id

\* C12: when the connection a name was last bound to has disconnected, a join
\* with that name from a connection that has no record is accepted: a
\* 'joined' reply, never join_error.
C12_DisconnectedNameReclaimable ==
    [][\A id \in sockets, raw \in RawNames :
          ( /\ sanitizeName(raw) \in DOMAIN playerNameToId
            /\ playerNameToId[sanitizeName(raw)] \notin sockets
            /\ id \notin DOMAIN playerIdToPlayer
            /\ Join(id, raw) ) =>
              /\ out' # JoinError(id)
              /\ out'[1].event = "joined"
              /\ id \in DOMAIN playerIdToPlayer'
              /\ playerIdToPlayer'[id].name = sanitizeName(raw)]_vars

\* the traversal the k-th draw belongs to, for a catalog of n questions
TraversalOf(k, n) == (k - 1) \div n

\* C13: with a catalog of N >= 1 questions, the indices startNextQuestion
\* chooses are indices of the catalog, no index repeats within one traversal
\* (draws 1..N, N+1..2N, ...), so each full traversal holds every index
\* exactly once, and the cursor read is within 0..N-1 and is the draw's
\* position in its traversal.
C13_EachIndexOncePerTraversal ==
    Len(questions) >= 1 =>
        /\ \A k \in 1..Len(drawn) : drawn[k] \in 0..(Len(questions) - 1)
        /\ \A i \in 1..Len(drawn), j \in 1..Len(drawn) :
               ( /\ i < j
                 /\ TraversalOf(i, Len(questions)) = TraversalOf(j, Len(questions)) ) =>
                   drawn[i] # drawn[j]
        /\ Len(drawn) = roundsStarted
        /\ roundsStarted > 0 =>
               /\ shuffledCursor \in 0..(Len(questions) - 1)
               /\ shuffledCursor = (Len(drawn) - 1) % Len(questions)
               /\ currentQuestionIndex = At(shuffledOrder, shuffledCursor)
               /\ currentQuestionIndex = drawn[Len(drawn)]

\* C13 witness: three questions, the third traversal has begun, and the second
\* traversal went in another order than the first.
C13_ThirdTraversal ==
    /\ Len(questions) = 3
    /\ Len(drawn) = 7
    /\ SubSeq(drawn, 1, 3) # SubSeq(drawn, 4, 6)
    /\ { drawn[k] : k \in 4..6 } = {0, 1, 2}

\* C14: an answer whose questionId is not the active question's id (or that
\* comes when there is no active question) is rejected in every phase, for a
\* connection with or without a record, and changes no score and no ledger
\* entry.
C14_StaleQuestionRejected ==
    [][\A id \in sockets, q \in QuestionIdInputs, c \in ChoiceIndexes :
          ( /\ currentQuestion = NullQuestion \/ q # currentQuestion.id
            /\ Answer(id, q, c) ) =>
              /\ out' = Rejected(id, IF currentPhase = "question"
                                     THEN NoLongerActive
                                     ELSE NotAccepting)
              /\ UNCHANGED <<playerIdToPlayer, playerNameToId, submissionsThisRound>>]_vars

\* C14 witness: in the question phase a player who could still answer was
\* told 'Question no longer active.'
C14_WrongIdInQuestionPhase ==
    \E id \in ConnectedIds :
        /\ currentPhase = "question"
        /\ id \notin DOMAIN submissionsThisRound
        /\ ~IsLocked(playerIdToPlayer[id])
        /\ out = Rejected(id, NoLongerActive)

\* the timers that are armed and have neither fired nor been cleared
PendingTimers == Cardinality(timers) + (IF startupTimer THEN 1 ELSE 0)

\* the transitions a round has made when it is in the phase given
TransitionsInRound ==
    CASE currentPhase = "question" -> 1
      [] currentPhase = "reveal" -> 2
      [] currentPhase = "idle" -> 3

\* C15: at most one timer is pending at any moment, and it is the one stored
\* in nextTimer (the startup timer is stored nowhere); a timer that fires is
\* gone when its callback has run, the callback makes one transition along
\* idle -> question -> reveal -> idle and arms at most one timer; no other
\* event arms, clears or fires a timer.  With a non-empty catalog the timers
\* armed so far number three per finished round plus the transitions of the
\* running round: no transition happened twice for a round.
C15_OneTimerOneTransition ==
    /\ [](/\ PendingTimers <= 1
          /\ \A timer \in timers : timer.handle = nextTimer /\ nextTimer = timersArmed
          /\ (Len(questions) > 0 /\ roundsStarted > 0) =>
                 timersArmed = 3 * (roundsStarted - 1) + TransitionsInRound
          /\ roundsStarted = 0 => timersArmed = 0 /\ currentPhase = "idle")
    /\ [][IF nowMs' # nowMs
          THEN /\ TimerFires
               /\ PendingTimers = 1
               /\ timers \cap timers' = {}
               /\ ~startupTimer'
               /\ Cardinality(timers') = (IF Len(questions) > 0 THEN 1 ELSE 0)
               /\ Len(questions) > 0 =>
                      /\ <<currentPhase, currentPhase'>> \in
                             { <<"idle", "question">>, <<"question", "reveal">>,
                               <<"reveal", "idle">> }
                      /\ roundsStarted' =
                             roundsStarted + (IF currentPhase' = "question" THEN 1 ELSE 0)
          ELSE UNCHANGED <<timers, startupTimer, nextTimer, timersArmed,
                           currentPhase, roundsStarted>>]_vars

\* C15 witness: the second round's question timer is the fourth timer armed and
\* the only one pending, with a player connected.
C15_FourthTimerPending ==
    /\ roundsStarted = 2
    /\ currentPhase = "question"
    /\ timers = {[handle |-> 4, callback |-> "endQuestionAndReveal"]}
    /\ nextTimer = 4
    /\ ~startupTimer
    /\ ConnectedIds # {}

\* C16: with an empty catalog the phase is idle in every state, there is no
\* active question, no ledger entry, no round and no timer armed by the
\* scheduler; startNextQuestion only broadcasts the leaderboard; every answer
\* is rejected and changes nothing; a join with an unbound name from a
\* connection without a record is accepted, and a disconnect marks the record.
C16_EmptyCatalogStaysIdle ==
    /\ [](Len(questions) = 0 =>
              /\ currentPhase = "idle"
              /\ currentQuestion = NullQuestion
              /\ submissionsThisRound = <<>>
              /\ roundsStarted = 0
              /\ timers = {}
              /\ nextTimer = NullTimer)
    /\ [][Len(questions) = 0 =>
              /\ (startupTimer /\ ~startupTimer') =>
                     out' = <<LeaderboardMsg(playerIdToPlayer)>>
              /\ \A id \in sockets :
                     /\ \A q \in QuestionIdInputs, c \in ChoiceIndexes :
                            Answer(id, q, c) =>
                                /\ out' = Rejected(id, NotAccepting)
                                /\ UNCHANGED <<playerIdToPlayer, playerNameToId,
                                               submissionsThisRound>>
                     /\ \A raw \in RawNames :
                            ( /\ id \notin DOMAIN playerIdToPlayer
                              /\ sanitizeName(raw) \notin DOMAIN playerNameToId
                              /\ Join(id, raw) ) =>
                                /\ out'[1] = JoinedMsg(id, playerIdToPlayer')
                                /\ playerIdToPlayer'[id] =
                                       NewPlayer(id, sanitizeName(raw), 0)
                     /\ ( id \in DOMAIN playerIdToPlayer /\ Disconnect(id) ) =>
                            ~playerIdToPlayer'[id].connected]_vars

\* C16 witness: the catalog is empty, the startup timer has fired, and a
\* connected player's answer was refused.
C16_IdleAnswerRefused ==
    \E id \in ConnectedIds :
        /\ Len(questions) = 0
        /\ ~startupTimer
        /\ \E other \in DOMAIN playerIdToPlayer : ~playerIdToPlayer[other].connected
        /\ out = Rejected(id, NotAccepting)

\* C17: the disconnect of a connection deletes no record, sets connected=false
\* on the connection's record and changes nothing else in it, and leaves the
\* other records, the name bindings, the ledger, the phase, the active
\* question and the timers as they were; without a record it changes nothing.
C17_DisconnectOnlyMarks ==
    [][\A id \in sockets :
          ( id \notin sockets' /\ Disconnect(id) ) =>
              /\ DOMAIN playerIdToPlayer' = DOMAIN playerIdToPlayer
              /\ \A i \in DOMAIN playerIdToPlayer :
                     playerIdToPlayer'[i] =
                         IF i = id
                         THEN [playerIdToPlayer[i] EXCEPT !.connected = FALSE]
                         ELSE playerIdToPlayer[i]
              /\ UNCHANGED <<playerNameToId, submissionsThisRound, currentPhase,
                             currentQuestion, questionEndsAt, timers, nextTimer>>
              /\ out' = <<>>]_vars

\* C17 witness: a player with points and a ledger entry has just disconnected;
\* the record, the name binding and the ledger entry are still there.
C17_GoneButKept ==
    \E id \in DOMAIN playerIdToPlayer :
        /\ id \notin sockets
        /\ ~playerIdToPlayer[id].connected
        /\ playerIdToPlayer[id].score > 0
        /\ playerNameToId[playerIdToPlayer[id].name] = id
        /\ id \in DOMAIN submissionsThisRound
        /\ currentPhase = "question"
        /\ out = <<>>

\* C18: an accepted submission whose choice is not the active question's
\* correct index is awarded 0 points with rank null, gets a ledger entry with
\* correct=false, and leaves every record (so every score) unchanged.
C18_IncorrectAwardsNothing ==
    [][\A id \in sockets :
          ( /\ id \notin DOMAIN submissionsThisRound
            /\ AcceptedAnswer(id)'
            /\ submissionsThisRound'[id].choiceIndex # currentQuestion.correctIndex ) =>
              /\ ~out'[1].payload.correct
              /\ out'[1].payload.points = 0
              /\ out'[1].payload.rank = NullRank
              /\ ~submissionsThisRound'[id].correct
              /\ submissionsThisRound'[id].points = 0
              /\ playerIdToPlayer' = playerIdToPlayer]_vars

\* C18 witness: a player who holds points from the round before has just
\* answered wrongly.
C18_WrongAfterRight ==
    \E id \in ConnectedIds :
        /\ roundsStarted = 2
        /\ playerIdToPlayer[id].score > 0
        /\ AcceptedAnswer(id)
        /\ ~out[1].payload.correct
        /\ submissionsThisRound[id].choiceIndex # currentQuestion.correctIndex

\* C19: an accepted correct submission gets rank (correct ledger entries
\* before it) + 1 and becomes one more correct entry; an accepted incorrect
\* one gets no rank and adds none; nothing else changes the correct entries
\* but the start of a round, which empties the ledger.  So the ranks of a
\* round are 1, 2, ..., k in processing order.
C19_RanksInProcessingOrder ==
    [][/\ \A id \in sockets :
              ( id \notin DOMAIN submissionsThisRound /\ AcceptedAnswer(id)' ) =>
                  IF out'[1].payload.correct
                  THEN /\ out'[1].payload.rank = Cardinality(CorrectIds) + 1
                       /\ CorrectIds' = CorrectIds \cup {id}
                       /\ Cardinality(CorrectIds') = out'[1].payload.rank
                  ELSE /\ out'[1].payload.rank = NullRank
                       /\ CorrectIds' = CorrectIds
       /\ CorrectIds' # CorrectIds =>
              \/ /\ roundsStarted' = roundsStarted + 1
                 /\ submissionsThisRound' = <<>>
              \/ \E id \in sockets \ DOMAIN submissionsThisRound :
                     /\ AcceptedAnswer(id)'
                     /\ out'[1].payload.correct]_vars

\* C19 witness: after a wrong submission, the first correct one got rank 1.
C19_FirstCorrectAfterWrong ==
    \E a \in SocketIds, b \in SocketIds :
        /\ DOMAIN submissionsThisRound = {a, b}
        /\ ~submissionsThisRound[a].correct
        /\ submissionsThisRound[b].correct
        /\ AcceptedAnswer(b)
        /\ out[1].payload.rank = 1

\* round r is in the phase given
RoundIn(r, phase) == roundsStarted = r /\ currentPhase = phase

\* C20: with a non-empty catalog and timers that fire, whatever connection,
\* join, answer and disconnect events come in between, every round up to the
\* last one the run may start (MaxLiveRounds) is started, every question
\* phase is followed by the round's reveal, the reveal by idle, and idle by
\* the next round's question.
C20_PhasesKeepCycling ==
    \A r \in 1..MaxLiveRounds :
        /\ (Len(questions) > 0 /\ roundsStarted = 0) ~> RoundIn(r, "question")
        /\ RoundIn(r, "question") ~> RoundIn(r, "reveal")
        /\ RoundIn(r, "reveal") ~> RoundIn(r, "idle")
        /\ (r < MaxLiveRounds /\ RoundIn(r, "idle")) ~> RoundIn(r + 1, "question")

\* C20 witness: the last round has gone through question and reveal and is idle,
\* with a connected player who scored on the way.
C20_LastRoundIdle ==
    /\ RoundIn(MaxLiveRounds, "idle")
    /\ \E id \in ConnectedIds : playerIdToPlayer[id].score > 0

\* the record comes before the other one on every leaderboard: a higher score,
\* or the same score and a name that collates first
RanksAbove(a, b) ==
    \/ a.score > b.score
    \/ a.score = b.score /\ localeCompare(a.name, b.name) < 0

\* C21: the leaderboard of the registry has at most 100 entries, min(100,
\* records) of them; each is the {id, name, score} of a record of its own,
\* connected or not; each entry ranks above the next (score descending, then
\* name ascending), and above every record left out.  No two records tie on
\* score and name, so the registry determines the leaderboard.
C21_LeaderboardSorted ==
    LET board == publicLeaderboard(playerIdToPlayer)
        records == Cardinality(DOMAIN playerIdToPlayer)
        listed == { board[k].id : k \in 1..Len(board) }
    IN  /\ Len(board) <= 100
        /\ Len(board) = (IF records < 100 THEN records ELSE 100)
        /\ Cardinality(listed) = Len(board)
        /\ \A k \in 1..Len(board) :
               /\ DOMAIN board[k] = {"id", "name", "score"}
               /\ board[k].id \in DOMAIN playerIdToPlayer
               /\ board[k].name = playerIdToPlayer[board[k].id].name
               /\ board[k].score = playerIdToPlayer[board[k].id].score
               /\ playerIdToPlayer[board[k].id].id = board[k].id
        /\ \A k \in 1..(Len(board) - 1) : RanksAbove(board[k], board[k + 1])
        /\ \A id \in DOMAIN playerIdToPlayer \ listed :
               RanksAbove(board[Len(board)], playerIdToPlayer[id])

\* C21 witness: 101 records, one of them connected; the leaderboard's 100
\* entries hold several scores and leave one record out.
C21_CrowdOfOneHundredAndOne ==
    LET board == publicLeaderboard(playerIdToPlayer)
    IN  /\ Cardinality(DOMAIN playerIdToPlayer) = 101
        /\ Cardinality(ConnectedIds) = 1
        /\ Len(board) = 100
        /\ board[1].score > board[100].score
        /\ \E k \in 1..99 : board[k].score = board[k + 1].score

\* the names the registry holds: those of the records and those bound to ids
StoredNames ==
    { playerIdToPlayer[id].name : id \in DOMAIN playerIdToPlayer } \cup DOMAIN playerNameToId

\* a stored name has 1..20 characters
NamesShortAndNonEmpty == \A name \in StoredNames : name # <<>> /\ Len(name) <= MaxNameLen

\* C22: every name the registry holds is non-empty, at most 20 characters long
\* and has no blank at either end, whatever raw names the clients sent; and an
\* empty or all-blank raw name is sanitized to 'Player'.
C22_StoredNamesTrimmed ==
    /\ NamesShortAndNonEmpty
    /\ \A name \in StoredNames : ~IsBlank(name[1]) /\ ~IsBlank(name[Len(name)])
    /\ \A raw \in RawNames : Trim(raw) = <<>> => sanitizeName(raw) = DefaultName

\* C23: the step that enters the question phase leaves an empty ledger and a
\* question that started now and ends QUESTION_DURATION_MS later; and a
\* connection is told 'You already answered.' only when the ledger holds an
\* entry of its own that was made in the current round.
C23_QuestionResetsRound ==
    [][/\ (currentPhase # "question" /\ currentPhase' = "question") =>
              /\ submissionsThisRound' = <<>>
              /\ questionStartedAt' = nowMs'
              /\ questionEndsAt' = questionStartedAt' + QUESTION_DURATION_MS
       /\ \A id \in sockets :
              out' = Rejected(id, AlreadyAnswered) =>
                  /\ id \in DOMAIN submissionsThisRound
                  /\ submissionsThisRound[id].answeredAt >= questionStartedAt]_vars

\* C23 witness: in the second round a player's answer has just been accepted
\* with points, and the player holds more points than this answer gave: the
\* rest is from its accepted answer of the first round (no other connection
\* was ever made).
C23_AcceptedAgainNextRound ==
    /\ connectionsSeen = 1
    /\ roundsStarted = 2
    /\ currentPhase = "question"
    /\ \E id \in DOMAIN submissionsThisRound :
           /\ Len(out) = 2
           /\ out[1] = EmitTo(id, "answer_result", out[1].payload)
           /\ out[1].payload.ok
           /\ submissionsThisRound[id].points > 0
           /\ submissionsThisRound[id].answeredAt = questionStartedAt
           /\ id \in DOMAIN playerIdToPlayer
           /\ playerIdToPlayer[id].score > submissionsThisRound[id].points

\* what the leaderboard shows of the registry: the records' ids, names, scores
Standing(players) ==
    { <<id, players[id].name, players[id].score>> : id \in DOMAIN players }

\* the leaderboards sent to all sessions by the last handler, in order
Broadcasts(messages) ==
    SelectSeq(messages, LAMBDA msg : msg.to = 0 /\ msg.event = "leaderboard")

\* C24: a handler that accepts a submission (a new ledger entry in the running
\* round) and a handler that changes a record's score or name or the set of
\* records sends a leaderboard to all sessions, and the last one it sends is
\* the leaderboard of the registry it leaves.
C24_LeaderboardFollowsRegistry ==
    [][(\/ Standing(playerIdToPlayer') # Standing(playerIdToPlayer)
        \/ /\ roundsStarted' = roundsStarted
           /\ submissionsThisRound' # submissionsThisRound) =>
           LET sent == Broadcasts(out')
           IN  /\ sent # <<>>
               /\ sent[Len(sent)].payload = publicLeaderboard(playerIdToPlayer')]_vars

\* C24 witness: a correct answer has just been accepted with two records in
\* the registry, and the leaderboard sent to all shows the new score on top.
C24_ScoreBroadcast ==
    /\ Cardinality(DOMAIN playerIdToPlayer) = 2
    /\ Len(out) = 2
    /\ out[1].event = "answer_result" /\ out[1].payload.ok /\ out[1].payload.points > 0
    /\ out[2] = LeaderboardMsg(playerIdToPlayer)
    /\ out[2].payload[1].id = out[1].to
    /\ out[2].payload[1].score > out[2].payload[2].score

\* C25: a join of a connection that has a player record, whatever name it
\* carries, leaves that record's name and score as they were and every
\* record of the registry in place with its name and score.
C25_RejoinChangesNoRecord ==
    [][\A id \in sockets \cap DOMAIN playerIdToPlayer :
          (\E raw \in RawNames : Join(id, raw)) =>
              /\ id \in DOMAIN playerIdToPlayer'
              /\ playerIdToPlayer'[id].name = playerIdToPlayer[id].name
              /\ playerIdToPlayer'[id].score = playerIdToPlayer[id].score
              /\ Standing(playerIdToPlayer') = Standing(playerIdToPlayer)]_vars

\* C26: a live connection that had a player record when the running question
\* phase started (connection ids are never reused, so it has been connected
\* ever since) is not answered 'You joined mid-question...' in that phase.
C26_SeatedNeverLockedOut ==
    [][\A id \in sockets \cap seatedAtStart :
          (currentPhase = "question" /\ id \in DOMAIN playerIdToPlayer) =>
              out' # Rejected(id, JoinedMidQuestion)]_vars

\* the connections whose answer the step accepts: a new entry in the ledger
\* of the running round
NewlyAccepted ==
    IF roundsStarted' = roundsStarted
    THEN DOMAIN submissionsThisRound' \ DOMAIN submissionsThisRound
    ELSE {}

\* C27: an answer is accepted only under a name no submission was accepted
\* under in the running round, and never from a connection whose latest
\* accepted join (a reclaim included) came during the running question phase.
C27_OneSubmissionPerName ==
    [][\A id \in NewlyAccepted :
          /\ playerIdToPlayer[id].name \notin answeredNames
          /\ ~JoinedThisQuestion(id)]_vars

\* C27 witness: a name whose holder had an answer accepted with points in the
\* running round was reclaimed by another connection during the question,
\* and that connection's answer has just been refused.
C27_ReclaimerRefused ==
    \E id \in sockets \cap DOMAIN playerIdToPlayer :
        /\ JoinedThisQuestion(id)
        /\ playerIdToPlayer[id].name \in answeredNames
        /\ playerIdToPlayer[id].score > 0
        /\ id \notin DOMAIN submissionsThisRound
        /\ \E other \in DOMAIN submissionsThisRound :
               other \notin sockets /\ submissionsThisRound[other].points > 0
        /\ out = Rejected(id, JoinedMidQuestion)

\* C28: the step that starts a round leaves every joined page of a live
\* connection with hasAnsweredThisRound false and its choices enabled, unless
\* the page is late-join-locked; and a page sends an answer only in a round
\* in which it has not sent one.
C28_NewRoundReenablesChoices ==
    [][/\ roundsStarted' = roundsStarted + 1 =>
              \A id \in sockets' \cap DOMAIN page :
                  page'[id].joined =>
                      /\ ~page'[id].hasAnsweredThisRound
                      /\ page'[id].choices = "enabled" \/ page'[id].answerLocked
       /\ \A id \in DOMAIN page :
              page'[id].lastSentRound # page[id].lastSentRound =>
                  page[id].lastSentRound # roundsStarted]_vars

====
